---- MODULE Spec2Model ----
(***************************************************************************)
(* CulinAIry Agentic API: the recipe catalog (utils/loader.py), the        *)
(* in-memory embedding index (utils/embeddings_helper.py), the reasoning   *)
(* client (utils/ai_agent.py) and the request handlers of backend/main.py. *)
(*                                                                         *)
(* Three specifications share the variables:                               *)
(*   Spec        the service: module start-up, then requests               *)
(*   SpecUtils   the helper functions of utils/ called directly            *)
(*   SpecLoader  get_recipe_by_id over every small catalog                 *)
(***************************************************************************)
EXTENDS Integers, Sequences, FiniteSets, TLC

(***************************************************************************)
(* Bounds of the model.                                                    *)
(***************************************************************************)
\* longest catalog of the service (Spec)
MaxRecipes == 2
\* longest catalog get_recipe_by_id is tried on (SpecLoader)
MaxCatalog == 2
\* largest meals_per_day * days requested
MaxNeeded == 3
\* longest JSON array the reasoning service answers with
MaxReply == 3
\* largest top_k find_similar_recipes is called with directly
MaxTopK == 4

\* Python's None: the value of dict.get on a missing key, and of a failed call
None == "<None>"

\* recipe identifiers that occur in catalogs
Ids == {"a", "b"}
\* an identifier no catalog record carries
UnknownId == "zz"
\* identifiers the helper functions are called with directly
IndexIds == {"a", "b", "c"}

(***************************************************************************)
(* Recipe records.  A record is a Python dict; a key the dict lacks reads  *)
(* as None through dict.get.  The empty dict {} has every key missing.     *)
(***************************************************************************)
\* "steps" and "ingredients" are lists of dicts; a record without the key
\* has the empty list here (both make the loops of attach_recipe_images run
\* zero times)
EmptyRecipe ==
    [id |-> None, id_legacy |-> None, title |-> None, cuisine |-> None, image_url |-> None,
     steps |-> <<>>, ingredients |-> <<>>]

\* bool(recipe): a dict is falsy exactly when it has no key
Truthy(recipe) == recipe # EmptyRecipe

\* get_recipe_by_id, the mutant: only the legacy key is compared
get_recipe_by_id_legacy_only(recipes, recipe_id) ==
    IF \E k \in 1..Len(recipes) : recipes[k].id_legacy = recipe_id
    THEN recipes[CHOOSE k \in 1..Len(recipes) :
                    /\ recipes[k].id_legacy = recipe_id
                    /\ \A j \in 1..(k-1) : recipes[j].id_legacy # recipe_id]
    ELSE EmptyRecipe

RECURSIVE get_recipe_by_id_from(_, _, _)
\* the loop of get_recipe_by_id from position k on
get_recipe_by_id_from(recipes, recipe_id, k) ==
    IF k > Len(recipes) THEN EmptyRecipe
    ELSE IF recipes[k].id_legacy = recipe_id \/ recipes[k].id = recipe_id
         THEN recipes[k]
         ELSE get_recipe_by_id_from(recipes, recipe_id, k + 1)

\* get_recipe_by_id(recipes, recipe_id): first record whose id_legacy or id
\* equals recipe_id, else {}
get_recipe_by_id(recipes, recipe_id) == get_recipe_by_id_from(recipes, recipe_id, 1)

(***************************************************************************)
(* Python sequence helpers.                                                *)
(***************************************************************************)
Min(a, b) == IF a < b THEN a ELSE b

\* s[lo:hi] for 0 <= lo, 0 <= hi: the elements at 0-based positions lo..hi-1
\* that exist; slicing never raises
PySlice(s, lo, hi) ==
    LET h == Min(hi, Len(s))
    IN  IF lo >= h THEN <<>> ELSE [k \in 1..(h - lo) |-> s[lo + k]]

(***************************************************************************)
(* utils/embeddings_helper.py                                              *)
(*                                                                         *)
(* Embedding vectors are integer vectors of one dimension (a single        *)
(* embedding service produces them all); none is the zero vector.          *)
(* get_embedding's None is the empty tuple.                                *)
(***************************************************************************)
Vecs == {<<1, 0>>, <<2, 2>>, <<-1, -1>>}
NoneEmb == <<>>

\* what one POST to the embedding service can end in: a transport error,
\* a non-success status, a 200 whose body lacks data[0].embedding, a vector
EmbedRepliesOver(vecs) ==
    {[kind |-> k, vec |-> <<>>] : k \in {"transport_error", "http_500", "bad_shape"}}
        \cup {[kind |-> "ok", vec |-> v] : v \in vecs}
EmbedReplies == EmbedRepliesOver(Vecs)
\* the vectors the service's runs draw from
ServiceVecs == {<<1, 0>>, <<2, 2>>}
ServiceEmbedReplies == EmbedRepliesOver(ServiceVecs)

\* get_embedding(text): one POST; any exception is caught and gives None
get_embedding(reply) ==
    [emb |-> IF reply.kind = "ok" THEN reply.vec ELSE NoneEmb, posts |-> 1]

\* embedding_index is a dict: a sequence of entries in insertion order,
\* at most one per key
HasKey(index, rid) == \E k \in 1..Len(index) : index[k].rid = rid
Keys(index) == {index[k].rid : k \in 1..Len(index)}
Entry(index, rid) == index[CHOOSE k \in 1..Len(index) : index[k].rid = rid]

\* embedding_index[recipe_id] = emb: an existing key keeps its position
DictSet(index, rid, emb) ==
    IF HasKey(index, rid)
    THEN [k \in 1..Len(index) |->
            IF index[k].rid = rid THEN [rid |-> rid, emb |-> emb] ELSE index[k]]
    ELSE Append(index, [rid |-> rid, emb |-> emb])

\* add_recipe_embedding, the mutant: the entry is written before the result
\* of the embedding call is looked at
add_recipe_embedding_unchecked(index, rid, reply) ==
    LET g == get_embedding(reply)
    IN  [index |-> DictSet(index, rid, g.emb), ret |-> g.emb # NoneEmb, posts |-> g.posts]

\* add_recipe_embedding(recipe_id, text): the index after the call, the
\* value returned and the number of POSTs made
add_recipe_embedding(index, rid, reply) ==
    LET g == get_embedding(reply)
    IN  IF g.emb # NoneEmb
        THEN [index |-> DictSet(index, rid, g.emb), ret |-> TRUE, posts |-> g.posts]
        ELSE [index |-> index, ret |-> FALSE, posts |-> g.posts]

Dot(u, v) == u[1] * v[1] + u[2] * v[2]
Norm2(u) == Dot(u, u)

\* the code's ordering, the mutant: the dot product without the norms
SimLessUnnormalised(q, e1, e2) == Dot(q, e1) < Dot(q, e2)

\* sim(q, e1) < sim(q, e2), where sim(q, e) = dot(q, e) / (|q| * |e|):
\* |q| > 0 is common to both sides, so the comparison is that of
\* dot(q, e1) / |e1| with dot(q, e2) / |e2|, decided on the squares
SimLess(q, e1, e2) ==
    LET a == Dot(q, e1)
        b == Dot(q, e2)
    IN  IF a < 0 /\ b >= 0 THEN TRUE
        ELSE IF a >= 0 /\ b < 0 THEN FALSE
        ELSE IF a >= 0 THEN a * a * Norm2(e2) < b * b * Norm2(e1)
        ELSE a * a * Norm2(e2) > b * b * Norm2(e1)

\* list.sort, the mutant: x goes before the elements of equal similarity (not stable)
InsertDescUnstable(q, sorted, x) ==
    LET notgreater == {k \in 1..Len(sorted) : ~SimLess(q, x.emb, sorted[k].emb)}
        at == IF notgreater = {} THEN Len(sorted) + 1
              ELSE CHOOSE k \in notgreater : \A j \in notgreater : k <= j
    IN  SubSeq(sorted, 1, at - 1) \o <<x>> \o SubSeq(sorted, at, Len(sorted))

\* list.sort(key=sim, reverse=True), one insertion: x goes before the first
\* element of smaller similarity, after every element of equal similarity
InsertDesc(q, sorted, x) ==
    LET smaller == {k \in 1..Len(sorted) : SimLess(q, sorted[k].emb, x.emb)}
        at == IF smaller = {} THEN Len(sorted) + 1
              ELSE CHOOSE k \in smaller : \A j \in smaller : k <= j
    IN  SubSeq(sorted, 1, at - 1) \o <<x>> \o SubSeq(sorted, at, Len(sorted))

RECURSIVE SortDescFrom(_, _, _, _)
\* the stable descending sort of similarities, entries taken in dict order
SortDescFrom(q, index, k, sorted) ==
    IF k > Len(index) THEN sorted
    ELSE SortDescFrom(q, index, k + 1, InsertDesc(q, sorted, index[k]))

\* find_similar_recipes, the mutant: the early return is missing, so a None
\* query embedding reaches np.dot, which raises
find_similar_recipes_unguarded(index, reply, top_k) ==
    LET g == get_embedding(reply)
        sorted == SortDescFrom(g.emb, index, 1, <<>>)
    IN  IF g.emb = NoneEmb
        THEN [ret |-> <<>>, raises |-> index # <<>>, emb |-> g.emb, posts |-> g.posts]
        ELSE [ret |-> PySlice([k \in 1..Len(sorted) |-> sorted[k].rid], 0, top_k),
              raises |-> FALSE, emb |-> g.emb, posts |-> g.posts]

\* find_similar_recipes(query_text, top_k): the identifiers returned, whether
\* an exception leaves the function, the query embedding and the number of
\* POSTs made.  get_embedding raises nothing, and with vectors of one
\* dimension neither np.dot nor the sort does.
find_similar_recipes(index, reply, top_k) ==
    LET g == get_embedding(reply)
        sorted == SortDescFrom(g.emb, index, 1, <<>>)
    IN  IF g.emb = NoneEmb \/ index = <<>>
        THEN [ret |-> <<>>, raises |-> FALSE, emb |-> g.emb, posts |-> g.posts]
        ELSE [ret |-> PySlice([k \in 1..Len(sorted) |-> sorted[k].rid], 0, top_k),
              raises |-> FALSE, emb |-> g.emb, posts |-> g.posts]

(***************************************************************************)
(* utils/ai_agent.py                                                       *)
(*                                                                         *)
(* A text is [kind, str, items]: kind "text" is a string that is no JSON   *)
(* document (str holds it); kinds "array", "object", "string" and "number" *)
(* are the JSON documents of that type (items: the array's elements, the   *)
(* object's keys, the string's characters); kind "none" is Python's None   *)
(* in place of a string.                                                   *)
(***************************************************************************)
NIM_UNAVAILABLE == "NIM model unavailable. Using fallback."
NIM_NOT_CONFIGURED == "NIM not configured. Using fallback."

PlainText(s) == [kind |-> "text", str |-> s, items |-> <<>>]
JsonArray(ids) == [kind |-> "array", str |-> "", items |-> ids]
JsonObject(keys) == [kind |-> "object", str |-> "", items |-> keys]
JsonString(chars) == [kind |-> "string", str |-> "", items |-> chars]
JsonNumber == [kind |-> "number", str |-> "42", items |-> <<>>]
NoneText == [kind |-> "none", str |-> "", items |-> <<>>]

SeqUpTo(S, n) == UNION {[1..k -> S] : k \in 0..n}

\* what the text-generation service may generate: prose, the very words of
\* the failure string, a JSON array of identifiers, a JSON object, a JSON
\* string, a number
GeneratedTexts ==
    {PlainText("Here are your meals: a, b"), PlainText(NIM_UNAVAILABLE),
     JsonObject(<<"recipes">>), JsonString(<<"a", "z">>), JsonNumber}
        \cup {JsonArray(ids) : ids \in SeqUpTo(Ids \cup {UnknownId}, MaxReply)}

\* what one POST to the reasoning service can end in: a transport error, a
\* timeout, a non-success status, a 200 whose body lacks
\* choices[0].message.content, a 200 whose content is null, generated text
NimReplies ==
    {[kind |-> k, content |-> NoneText] :
        k \in {"transport_error", "timeout", "http_500", "bad_shape"}}
        \cup {[kind |-> "ok", content |-> t] : t \in GeneratedTexts \cup {NoneText}}

\* query_nim, the mutant: a failed request is sent once more
query_nim_retry(configured, reply) ==
    IF ~configured
    THEN [ret |-> PlainText(NIM_NOT_CONFIGURED), posts |-> 0, raises |-> FALSE]
    ELSE IF reply.kind = "ok"
         THEN [ret |-> reply.content, posts |-> 1, raises |-> FALSE]
         ELSE [ret |-> PlainText(NIM_UNAVAILABLE), posts |-> 2, raises |-> FALSE]

\* query_nim(prompt): the value returned, the number of POSTs made and
\* whether an exception leaves the function (the POST, raise_for_status,
\* the decoding and the indexing are all inside try/except Exception)
query_nim(configured, reply) ==
    IF ~configured
    THEN [ret |-> PlainText(NIM_NOT_CONFIGURED), posts |-> 0, raises |-> FALSE]
    ELSE IF reply.kind = "ok"
         THEN [ret |-> reply.content, posts |-> 1, raises |-> FALSE]
         ELSE [ret |-> PlainText(NIM_UNAVAILABLE), posts |-> 1, raises |-> FALSE]

(***************************************************************************)
(* backend/main.py: plan_meals, step by step                               *)
(***************************************************************************)
\* top_k of the retrieval in plan_meals
PLAN_TOP_K == 5

\* json.loads(ai_response): raises on a string that is no JSON document and
\* on None, else gives the document's value
json_loads(text) ==
    IF text.kind \in {"text", "none"}
    THEN [raises |-> TRUE, type |-> "", items |-> <<>>]
    ELSE [raises |-> FALSE, type |-> text.kind, items |-> text.items]

\* "for recipe_id in selected_ids": a list gives its elements, a dict its
\* keys, a str its characters; a number is not iterable (TypeError)
Iterable(value) == value.type \in {"array", "object", "string"}

\* random.choices(population, k=k): draws[j] is the position drawn at draw j
random_choices(population, draws) ==
    [j \in DOMAIN draws |-> population[draws[j]]]

\* the draws random.choices can make: k positions of a population of size n
Draws(n, k) == [1..k -> 1..n]

\* Step 7, the mutant: an identifier named twice is resolved once
ResolveIdsDistinct(recipes, ids) ==
    LET first == SelectSeq([j \in DOMAIN ids |-> <<j, ids[j]>>],
                           LAMBDA e : \A i \in 1..(e[1] - 1) : ids[i] # e[2])
        found == [j \in DOMAIN first |-> get_recipe_by_id(recipes, first[j][2])]
    IN  SelectSeq(found, Truthy)

\* Step 7: the records of the identifiers that resolve, in order
ResolveIds(recipes, ids) ==
    LET found == [j \in DOMAIN ids |-> get_recipe_by_id(recipes, ids[j])]
    IN  SelectSeq(found, Truthy)

\* a str.join of a base URL and os.path.basename of the image reference
Images == {"img/dish/a.png"}
DishImageUrl(image) ==
    CASE image = "img/dish/a.png" -> "http://localhost:8000/images/dish/a.png"

StepImageUrl(image) ==
    CASE image = "img/step/s1.png" -> "http://localhost:8000/images/cooking_step/s1.png"
IngredientImageUrl(image) ==
    CASE image = "img/ing/i1.png" -> "http://localhost:8000/images/ingredient/i1.png"

\* the loop over recipe["steps"] (lines 56-60): the step that has an image
\* gets its image_url key assigned
AttachStepUrls(steps) ==
    [j \in DOMAIN steps |->
        IF steps[j].image # None
        THEN [steps[j] EXCEPT !.image_url = StepImageUrl(steps[j].image)]
        ELSE steps[j]]

\* the loop over recipe["ingredients"] (lines 63-67), likewise
AttachIngredientUrls(ingredients) ==
    [j \in DOMAIN ingredients |->
        IF ingredients[j].image # None
        THEN [ingredients[j] EXCEPT
                !.image_url = IngredientImageUrl(ingredients[j].image)]
        ELSE ingredients[j]]

\* attach_recipe_images(recipe).  recipe.copy() is a shallow copy: the copy
\* has its own top-level keys, and its "steps" and "ingredients" are the very
\* lists (of the very dicts) of the argument.  ret is the dict returned,
\* recipe is the argument as the call leaves it.
attach_recipe_images(recipe) ==
    LET steps == AttachStepUrls(recipe.steps)
        ingredients == AttachIngredientUrls(recipe.ingredients)
    IN  [ret |-> [id |-> recipe.id, id_legacy |-> recipe.id_legacy,
                  title |-> recipe.title, cuisine |-> recipe.cuisine,
                  image_url |-> recipe.image_url,
                  steps |-> steps, ingredients |-> ingredients,
                  dish_image_url |->
                    IF recipe.image_url # None THEN DishImageUrl(recipe.image_url)
                    ELSE None],
         recipe |-> [recipe EXCEPT !.steps = steps, !.ingredients = ingredients]]

\* the position in the catalog of a record get_recipe_by_id returned: the
\* function returns the first record that carries the identifier, and no
\* earlier record is equal to it (an equal record carries the identifier too)
CatalogPosition(recipes, recipe) ==
    CHOOSE k \in 1..Len(recipes) :
        /\ recipes[k] = recipe
        /\ \A j \in 1..(k - 1) : recipes[j] # recipe

\* the catalog after attach_recipe_images ran on the records at positions
AttachedCatalog(recipes, positions) ==
    [k \in DOMAIN recipes |->
        IF k \in positions THEN attach_recipe_images(recipes[k]).recipe
        ELSE recipes[k]]

\* the records of a list after attach_recipe_images ran on each of them
AfterAttach(records) ==
    [j \in DOMAIN records |-> attach_recipe_images(records[j]).recipe]

\* [attach_recipe_images(r) for r in records]: the list built
AttachAll(records) ==
    [j \in DOMAIN records |-> attach_recipe_images(records[j]).ret]

\* ... and the catalog it leaves, the records being records of the catalog
CatalogAfterAttachAll(recipes, records) ==
    AttachedCatalog(recipes,
        {CatalogPosition(recipes, records[j]) : j \in DOMAIN records})

\* Step 9, the mutant: the day's slice is not closed at end_idx
AssemblePlanOpenSlice(with_images, request) ==
    [day \in 1..request.days |->
        [day |-> day,
         meals |-> PySlice(with_images, (day - 1) * request.meals_per_day,
                           Len(with_images))]]

\* Step 9: one entry per day, holding the slice [start_idx:end_idx]
AssemblePlan(with_images, request) ==
    [day \in 1..request.days |->
        [day |-> day,
         meals |-> PySlice(with_images, (day - 1) * request.meals_per_day,
                           (day - 1) * request.meals_per_day + request.meals_per_day)]]

Needed(request) == request.meals_per_day * request.days

\* the HTTP responses of plan_meals; an exception no handler catches is
\* answered by the framework with status 500
PlanResponse(request, retrieved, selected) ==
    [status |-> 200, detail |-> "",
     retrieved_recipes |-> retrieved,
     plan |-> AssemblePlan(AttachAll(selected), request)]
ErrorResponse(status, detail) ==
    [status |-> status, detail |-> detail, retrieved_recipes |-> 0, plan |-> <<>>]

\* the mutant: an empty retrieval is answered as a failed dependency
NoSimilarResponseAs500 == ErrorResponse(500, "Vector search failed")

\* lines 283-284: the answer to an empty retrieval
NoSimilarResponse == ErrorResponse(404, "No similar recipes found")

(***************************************************************************)
(* State.                                                                  *)
(***************************************************************************)
VARIABLES
    RECIPES,            \* main.py RECIPES: the catalog, loaded once
    NIM_CONFIGURED,     \* ai_agent.py: NIM_ENDPOINT and NIM_API_KEY are both set
    embedding_index,    \* embeddings_helper.py embedding_index
    pc,                 \* "startup": main.py is loading; "serving"; "library"
    loaded,             \* number of catalog records the start-up loop has passed
    call                \* the call or request in progress and what it observed

vars == <<RECIPES, NIM_CONFIGURED, embedding_index, pc, loaded, call>>

Idle == [op |-> "idle"]

\* the catalogs of the service: every record has an id_legacy (main.py line
\* 79 reads r["id_legacy"]; without the key the module does not load)
RecipePool ==
    {[id |-> None, id_legacy |-> "a", title |-> "Vegan Bowl", cuisine |-> "Asian",
      image_url |-> "img/dish/a.png",
      steps |-> <<[image |-> None, image_url |-> None]>>, ingredients |-> <<>>],
     [id |-> "b", id_legacy |-> "a", title |-> "Beef Taco", cuisine |-> "Mexican",
      image_url |-> None, steps |-> <<>>, ingredients |-> <<>>],
     [id |-> "a", id_legacy |-> "b", title |-> "Beef Taco", cuisine |-> "Mexican",
      image_url |-> "img/dish/a.png",
      steps |-> <<[image |-> "img/step/s1.png", image_url |-> None]>>,
      ingredients |-> <<[image |-> "img/ing/i1.png", image_url |-> None]>>]}

\* the catalogs the service is started on: recipes_updated.json lists a
\* recipe once (two of its records may still share an identifier)
Catalogs ==
    {s \in SeqUpTo(RecipePool, MaxRecipes) :
        \A i, j \in DOMAIN s : i # j => s[i] # s[j]}

\* MealRequest: the validated body of POST /plan-meals
PreferenceLists == {<<>>, <<"vegan">>}
MAX_MEALS_PER_DAY == 5
MAX_DAYS == 7
MealRequests ==
    {r \in [meals_per_day : 1..MAX_MEALS_PER_DAY, days : 1..MAX_DAYS,
            preferences : PreferenceLists] : r.meals_per_day * r.days <= MaxNeeded}

(***************************************************************************)
(* The service: module start-up, then requests.                            *)
(***************************************************************************)
Init ==
    /\ RECIPES \in Catalogs
    /\ NIM_CONFIGURED \in BOOLEAN
    /\ embedding_index = <<>>
    /\ pc = "startup"
    /\ loaded = 0
    /\ call = Idle

\* the start-up loop, the mutant: the entry is filed under the title
StartupInsertByTitle ==
    /\ pc = "startup"
    /\ loaded < Len(RECIPES)
    /\ \E reply \in ServiceEmbedReplies :
         embedding_index' =
            add_recipe_embedding(embedding_index, RECIPES[loaded + 1].title, reply).index
    /\ loaded' = loaded + 1
    /\ UNCHANGED <<RECIPES, NIM_CONFIGURED, pc, call>>

\* main.py lines 78-79: one pass of the start-up loop
StartupInsert ==
    /\ pc = "startup"
    /\ loaded < Len(RECIPES)
    /\ \E reply \in ServiceEmbedReplies :
         embedding_index' =
            add_recipe_embedding(embedding_index, RECIPES[loaded + 1].id_legacy, reply).index
    /\ loaded' = loaded + 1
    /\ UNCHANGED <<RECIPES, NIM_CONFIGURED, pc, call>>

\* the module is loaded: the application starts to serve
StartServing ==
    /\ pc = "startup"
    /\ loaded = Len(RECIPES)
    /\ pc' = "serving"
    /\ UNCHANGED <<RECIPES, NIM_CONFIGURED, embedding_index, loaded, call>>

\* Step 2 of a handler: what find_similar_recipes gave it
Retrieval(index, ereply, top_k) ==
    LET f == find_similar_recipes(index, ereply, top_k)
    IN  [ret |-> f.ret, raises |-> f.raises, embedded |-> f.emb # NoneEmb,
         posts |-> f.posts]

\* what a plan_meals request observed and answered; selected_recipes holds
\* records of the catalog, as the request leaves them
PlanCall(request, found, ai, selected, response) ==
    [op |-> "plan_meals", request |-> request,
     embedded |-> found.embedded, similar_recipes |-> found.ret,
     ai_response |-> ai.ret, selected_recipes |-> selected, response |-> response,
     embed_posts |-> found.posts, nim_posts |-> ai.posts]

NoNimCall == [ret |-> NoneText, posts |-> 0, raises |-> FALSE]

\* plan_meals from Step 7 on: resolve, pad, attach, assemble, respond
PlanFromIds(request, found, ai, selected_ids) ==
    LET resolved == ResolveIds(RECIPES, selected_ids)
        missing == Needed(request) - Len(resolved)
        pool == ResolveIds(RECIPES, found.ret)
        retrieved == Len(pool)
    IN  IF missing <= 0
        THEN /\ call' = PlanCall(request, found, ai, AfterAttach(resolved),
                                 PlanResponse(request, retrieved, resolved))
             /\ RECIPES' = CatalogAfterAttachAll(RECIPES, resolved)
        ELSE IF pool = <<>>
        THEN \* random.choices on an empty population raises IndexError
             /\ call' = PlanCall(request, found, ai, resolved,
                                 ErrorResponse(500, "Internal Server Error"))
             /\ UNCHANGED RECIPES
        ELSE \E draws \in Draws(Len(pool), missing) :
                LET selected == resolved \o random_choices(pool, draws)
                IN  /\ call' = PlanCall(request, found, ai, AfterAttach(selected),
                                        PlanResponse(request, retrieved, selected))
                    /\ RECIPES' = CatalogAfterAttachAll(RECIPES, selected)

\* POST /plan-meals: plan_meals(request), main.py lines 253-396
PlanMeals ==
    /\ pc = "serving"
    /\ call = Idle
    /\ \E request \in MealRequests :
         \E found \in {Retrieval(embedding_index, ereply, PLAN_TOP_K) :
                            ereply \in ServiceEmbedReplies} :
             IF found.raises
             THEN /\ call' = PlanCall(request, found, NoNimCall, <<>>,
                                      ErrorResponse(500, "Vector search failed"))
                  /\ UNCHANGED RECIPES
             ELSE IF found.ret = <<>>
             THEN /\ call' = PlanCall(request, found, NoNimCall, <<>>, NoSimilarResponse)
                  /\ UNCHANGED RECIPES
             ELSE \E ai \in {query_nim(NIM_CONFIGURED, nreply) : nreply \in NimReplies} :
                    LET parsed == json_loads(ai.ret)
                    IN  IF parsed.raises
                        THEN \E draws \in Draws(Len(found.ret), Needed(request)) :
                                PlanFromIds(request, found, ai,
                                            random_choices(found.ret, draws))
                        ELSE IF ~Iterable(parsed)
                        THEN \* the for loop of Step 7 raises TypeError
                             /\ call' = PlanCall(request, found, ai, <<>>,
                                           ErrorResponse(500, "Internal Server Error"))
                             /\ UNCHANGED RECIPES
                        ELSE PlanFromIds(request, found, ai, parsed.items)
    /\ UNCHANGED <<NIM_CONFIGURED, embedding_index, pc, loaded>>

\* RecipeSearchRequest: top_k of POST /search-recipes (gt=0, le=10)
MAX_TOP_K == 10
SearchRequests == [top_k : 1..Min(MaxTopK, MAX_TOP_K)]

\* full_recipe.get("id_legacy") or full_recipe.get("id")
IdOf(recipe) == IF recipe.id_legacy # None THEN recipe.id_legacy ELSE recipe.id

\* the answers of search_recipes: count is len(selected_ids), recipe_ids is
\* the value json.loads gave (or the fallback list)
SearchResponse(type, items) ==
    [status |-> 200, detail |-> "", count |-> Len(items), type |-> type,
     recipe_ids |-> items]
SearchError(status, detail) ==
    [status |-> status, detail |-> detail, count |-> 0, type |-> "", recipe_ids |-> <<>>]

SearchCall(request, found, ai, response) ==
    [op |-> "search_recipes", request |-> request,
     similar_recipes |-> found.ret, ai_response |-> ai.ret, response |-> response]

\* POST /search-recipes: search_recipes(request), main.py lines 162-250
SearchRecipes ==
    /\ pc = "serving"
    /\ call = Idle
    /\ \E request \in SearchRequests :
         \E found \in {Retrieval(embedding_index, ereply, request.top_k) :
                            ereply \in ServiceEmbedReplies} :
             IF found.raises
             THEN call' = SearchCall(request, found, NoNimCall,
                                     SearchError(500, "Vector search failed"))
             ELSE IF found.ret = <<>>
             THEN call' = SearchCall(request, found, NoNimCall,
                                     SearchError(404, "No recipes found for this query"))
             ELSE \E ai \in {query_nim(NIM_CONFIGURED, nreply) : nreply \in NimReplies} :
                    LET parsed == json_loads(ai.ret)
                    IN  IF parsed.raises
                        THEN \E ids \in {[j \in 1..request.top_k |->
                                            IdOf(get_recipe_by_id(RECIPES,
                                                    found.ret[draws[j]]))] :
                                          draws \in Draws(Len(found.ret), request.top_k)} :
                                call' = SearchCall(request, found, ai,
                                                   SearchResponse("array", ids))
                        ELSE IF parsed.type = "number"
                        THEN \* len(selected_ids) raises TypeError
                             call' = SearchCall(request, found, ai,
                                        SearchError(500, "Internal Server Error"))
                        ELSE call' = SearchCall(request, found, ai,
                                        SearchResponse(parsed.type, parsed.items))
    /\ UNCHANGED <<RECIPES, NIM_CONFIGURED, embedding_index, pc, loaded>>

\* limit of GET /recipes: the default and a value below the catalog's length
DEFAULT_LIMIT == 10
Limits == {1, DEFAULT_LIMIT}

\* list_recipes, the mutant: the handler embeds the records it lists
ListRecipesIndexing ==
    /\ pc = "serving"
    /\ call = Idle
    /\ \E limit \in Limits, reply \in ServiceEmbedReplies :
         LET listed == PySlice(RECIPES, 0, limit)
         IN  /\ call' = [op |-> "list_recipes", limit |-> limit,
                         response |-> AttachAll(listed)]
             /\ RECIPES' = AttachedCatalog(RECIPES, DOMAIN listed)
             /\ embedding_index' =
                    IF listed = <<>> THEN embedding_index
                    ELSE add_recipe_embedding(embedding_index, listed[1].id_legacy,
                                              reply).index
    /\ UNCHANGED <<NIM_CONFIGURED, pc, loaded>>

\* GET /recipes: list_recipes(limit), main.py lines 405-412
ListRecipes ==
    /\ pc = "serving"
    /\ call = Idle
    /\ \E limit \in Limits :
         LET listed == PySlice(RECIPES, 0, limit)
         IN  /\ call' = [op |-> "list_recipes", limit |-> limit,
                         response |-> AttachAll(listed)]
             /\ RECIPES' = AttachedCatalog(RECIPES, DOMAIN listed)
    /\ UNCHANGED <<NIM_CONFIGURED, embedding_index, pc, loaded>>

\* GET /recipe/{recipe_id}: read_recipe(recipe_id), main.py lines 417-434
ReadRecipe ==
    /\ pc = "serving"
    /\ call = Idle
    /\ \E recipe_id \in Ids \cup {UnknownId} :
         LET recipe == get_recipe_by_id(RECIPES, recipe_id)
         IN  IF ~Truthy(recipe)
             THEN /\ call' = [op |-> "read_recipe", recipe_id |-> recipe_id,
                              status |-> 404, detail |-> "Recipe not found",
                              response |-> EmptyRecipe]
                  /\ UNCHANGED RECIPES
             ELSE /\ call' = [op |-> "read_recipe", recipe_id |-> recipe_id,
                              status |-> 200, detail |-> "",
                              response |-> attach_recipe_images(recipe).ret]
                  /\ RECIPES' = CatalogAfterAttachAll(RECIPES, <<recipe>>)
    /\ UNCHANGED <<NIM_CONFIGURED, embedding_index, pc, loaded>>

\* the response is sent, or the value returned to the caller
Return ==
    /\ call # Idle
    /\ call' = Idle
    /\ UNCHANGED <<RECIPES, NIM_CONFIGURED, embedding_index, pc, loaded>>

Next ==
    \/ StartupInsert
    \/ StartServing
    \/ PlanMeals
    \/ SearchRecipes
    \/ ListRecipes
    \/ ReadRecipe
    \/ Return

Spec == Init /\ [][Next]_vars

(***************************************************************************)
(* The helper functions of utils/ called directly, as a library.           *)
(***************************************************************************)
InitUtils ==
    /\ RECIPES = <<>>
    /\ NIM_CONFIGURED \in BOOLEAN
    /\ embedding_index = <<>>
    /\ pc = "library"
    /\ loaded = 0
    /\ call = Idle

\* add_recipe_embedding(recipe_id, text)
AddRecipeEmbedding ==
    /\ pc = "library"
    /\ call = Idle
    /\ \E rid \in IndexIds, reply \in EmbedReplies :
         LET r == add_recipe_embedding(embedding_index, rid, reply)
         IN  /\ embedding_index' = r.index
             /\ call' = [op |-> "add_recipe_embedding", recipe_id |-> rid,
                         reply |-> reply, ret |-> r.ret, posts |-> r.posts]
    /\ UNCHANGED <<RECIPES, NIM_CONFIGURED, pc, loaded>>

\* find_similar_recipes(query_text, top_k)
FindSimilarRecipes ==
    /\ pc = "library"
    /\ call = Idle
    /\ \E top_k \in 1..MaxTopK, reply \in EmbedReplies :
         LET r == find_similar_recipes(embedding_index, reply, top_k)
         IN  call' = [op |-> "find_similar_recipes", top_k |-> top_k, reply |-> reply,
                      ret |-> r.ret, raises |-> r.raises, emb |-> r.emb,
                      posts |-> r.posts]
    /\ UNCHANGED <<RECIPES, NIM_CONFIGURED, embedding_index, pc, loaded>>

\* query_nim(prompt)
QueryNim ==
    /\ pc = "library"
    /\ call = Idle
    /\ \E reply \in NimReplies :
         LET r == query_nim(NIM_CONFIGURED, reply)
         IN  call' = [op |-> "query_nim", reply |-> reply, ret |-> r.ret,
                      raises |-> r.raises, posts |-> r.posts]
    /\ UNCHANGED <<RECIPES, NIM_CONFIGURED, embedding_index, pc, loaded>>

NextUtils == AddRecipeEmbedding \/ FindSimilarRecipes \/ QueryNim \/ Return

SpecUtils == InitUtils /\ [][NextUtils]_vars

(***************************************************************************)
(* get_recipe_by_id over every catalog of at most MaxCatalog records; a    *)
(* record may lack either identifier.                                      *)
(***************************************************************************)
LoaderRecords ==
    [id : Ids \cup {None}, id_legacy : Ids \cup {None},
     title : {"Vegan Bowl", "Beef Taco"}, cuisine : {"Mexican"}, image_url : {None},
     steps : {<<>>}, ingredients : {<<>>}]

InitLoader ==
    /\ RECIPES \in SeqUpTo(LoaderRecords, MaxCatalog)
    /\ NIM_CONFIGURED = TRUE
    /\ embedding_index = <<>>
    /\ pc = "library"
    /\ loaded = 0
    /\ call = Idle

\* get_recipe_by_id(RECIPES, recipe_id)
GetRecipeById ==
    /\ pc = "library"
    /\ call = Idle
    /\ \E rid \in Ids \cup {UnknownId} :
         call' = [op |-> "get_recipe_by_id", recipe_id |-> rid,
                  ret |-> get_recipe_by_id(RECIPES, rid)]
    /\ UNCHANGED <<RECIPES, NIM_CONFIGURED, embedding_index, pc, loaded>>

NextLoader == GetRecipeById \/ Return

SpecLoader == InitLoader /\ [][NextLoader]_vars

(***************************************************************************)
(* Properties.                                                             *)
(***************************************************************************)
IsPlanCall == call.op = "plan_meals"

\* the plan has one entry per day, numbered from 1, each of meals_per_day recipes
FullSizePlan(request, plan) ==
    /\ Len(plan) = request.days
    /\ \A d \in 1..Len(plan) :
         /\ plan[d].day = d
         /\ Len(plan[d].meals) = request.meals_per_day

\* the records of the retrieved identifiers, as a plan shows them
Candidates(similar) ==
    {attach_recipe_images(get_recipe_by_id(RECIPES, similar[j])).ret : j \in DOMAIN similar}

PlanRecipes(plan) == UNION {{plan[d].meals[j] : j \in DOMAIN plan[d].meals} : d \in DOMAIN plan}

\* C1: every plan that plan_meals returns has exactly `days` entries numbered
\* 1..days, each of exactly meals_per_day recipes, whatever the reasoning
\* service answered
C1_PlanSize ==
    (IsPlanCall /\ call.response.status = 200)
        => FullSizePlan(call.request, call.response.plan)

\* C1 witness: a two-day plan is returned although the reasoning service
\* named more resolvable identifiers than required
C1_Witness ==
    /\ IsPlanCall
    /\ call.response.status = 200
    /\ call.request.days = 2
    /\ call.ai_response.kind = "array"
    /\ Len(call.selected_recipes) > Needed(call.request)

\* the reasoning service gave nothing usable: the failure string, text that
\* is no JSON, or JSON that is no array
UnusableReply(text) == json_loads(text).raises \/ json_loads(text).type # "array"

\* C2 (as claimed): when retrieval found candidates and the reasoning reply
\* is unusable, the request does not fail: a full-size plan is returned and
\* every recipe in it is a retrieved candidate
C2_FallbackOnUnusableReply ==
    (IsPlanCall /\ call.similar_recipes # <<>> /\ UnusableReply(call.ai_response))
        => /\ call.response.status = 200
           /\ FullSizePlan(call.request, call.response.plan)
           /\ PlanRecipes(call.response.plan) \subseteq Candidates(call.similar_recipes)

\* case-insensitive substring test of a preference tag on the catalog's texts
ContainsTag(text, tag) ==
    CASE text = "Vegan Bowl" -> tag \in {"vegan", "bowl"}
      [] text = "Beef Taco" -> tag \in {"beef", "taco"}
      [] text = "Mexican" -> tag \in {"mexican"}
      [] text = "Asian" -> tag \in {"asian"}
      [] OTHER -> FALSE

\* the preference filter of the specification: title or cuisine contains a tag
MatchesPreferences(recipe, preferences) ==
    \E j \in DOMAIN preferences :
        ContainsTag(recipe.title, preferences[j]) \/ ContainsTag(recipe.cuisine, preferences[j])

NoCatalogMatch(preferences) ==
    \A k \in DOMAIN RECIPES : ~MatchesPreferences(RECIPES[k], preferences)

\* C3 (as claimed): a request whose preference tags match no catalog recipe
\* ends with the "no matches" client error, and neither the embedding
\* service nor the reasoning service is called
C3_NoMatchNoCalls ==
    (IsPlanCall /\ call.request.preferences # <<>>
        /\ NoCatalogMatch(call.request.preferences))
        => /\ call.response.status = 404
           /\ call.embed_posts = 0
           /\ call.nim_posts = 0

\* C4 (as claimed): when the embedding service fails on the query, the
\* request ends with a dependency error that differs from the "no matches"
\* answer to an empty retrieval, and the reasoning service is not called
C4_EmbeddingFailureIsDependencyError ==
    (IsPlanCall /\ ~call.embedded)
        => /\ call.response.status = 500
           /\ call.response # ErrorResponse(404, "No similar recipes found")
           /\ call.nim_posts = 0

IsFindCall == call.op = "find_similar_recipes"

\* C6: find_similar_recipes returns the empty list, and raises nothing,
\* whenever the embedding call for the query fails or the index is empty
C6_EmptyOnFailureOrEmptyIndex ==
    (IsFindCall /\ (call.reply.kind # "ok" \/ embedding_index = <<>>))
        => /\ call.ret = <<>>
           /\ ~call.raises

\* C6 witness: the embedding call fails on an index of three entries
C6_Witness ==
    /\ IsFindCall
    /\ call.reply.kind = "http_500"
    /\ Len(embedding_index) = 3

\* cosine similarity compared exactly: sign(d) * d^2 / |e|^2 orders as d / |e|
SignedSquare(d) == IF d < 0 THEN -(d * d) ELSE d * d
CosineLess(q, e1, e2) ==
    SignedSquare(Dot(q, e1)) * Norm2(e2) < SignedSquare(Dot(q, e2)) * Norm2(e1)
CosineEqual(q, e1, e2) == ~CosineLess(q, e1, e2) /\ ~CosineLess(q, e2, e1)

PositionOf(index, rid) == CHOOSE k \in 1..Len(index) : index[k].rid = rid

\* rid1 ranks before rid2: greater similarity, or equal similarity and
\* inserted earlier
RanksBefore(q, index, rid1, rid2) ==
    LET e1 == Entry(index, rid1).emb
        e2 == Entry(index, rid2).emb
    IN  \/ CosineLess(q, e2, e1)
        \/ CosineEqual(q, e1, e2) /\ PositionOf(index, rid1) < PositionOf(index, rid2)

\* C7: on a non-empty index with the query embedded, the result is the first
\* min(top_k, size) identifiers of the index by descending cosine similarity,
\* equal similarities in insertion order; it has no duplicates and holds
\* indexed identifiers only.  These conditions leave one possible result, so
\* the same query on the same index gives the same sequence.
C7_RankedBySimilarity ==
    (IsFindCall /\ call.reply.kind = "ok" /\ embedding_index # <<>>)
        => LET res == call.ret
               q == call.emb
               in_res == {res[j] : j \in DOMAIN res}
           IN  /\ Len(res) = Min(call.top_k, Len(embedding_index))
               /\ in_res \subseteq Keys(embedding_index)
               /\ \A i, j \in DOMAIN res :
                    i < j => /\ res[i] # res[j]
                             /\ RanksBefore(q, embedding_index, res[i], res[j])
               /\ \A rid \in Keys(embedding_index) \ in_res :
                    \A j \in DOMAIN res : RanksBefore(q, embedding_index, res[j], rid)

\* C7 witness: three entries, two returned, and the two returned have equal
\* similarity to the query
C7_Witness ==
    /\ IsFindCall
    /\ call.reply.kind = "ok"
    /\ Len(embedding_index) = 3
    /\ call.top_k = 2
    /\ Len(call.ret) = 2
    /\ CosineEqual(call.emb, Entry(embedding_index, call.ret[1]).emb,
                   Entry(embedding_index, call.ret[2]).emb)

\* the entries of the index other than rid's, in order
OtherEntries(index, rid) == SelectSeq(index, LAMBDA e : e.rid # rid)

\* C8: add_recipe_embedding makes exactly one call of the embedding service;
\* when the call fails it returns False and the index is unchanged; when it
\* succeeds it returns True, the entry of recipe_id holds the new vector and
\* every other entry is unchanged
C8_InsertIsAtomic ==
    [][(call = Idle /\ call'.op = "add_recipe_embedding")
        => /\ call'.posts = 1
           /\ IF call'.reply.kind # "ok"
              THEN /\ call'.ret = FALSE
                   /\ embedding_index' = embedding_index
              ELSE /\ call'.ret = TRUE
                   /\ HasKey(embedding_index', call'.recipe_id)
                   /\ Entry(embedding_index', call'.recipe_id).emb = call'.reply.vec
                   /\ OtherEntries(embedding_index', call'.recipe_id)
                        = OtherEntries(embedding_index, call'.recipe_id)
                   /\ Len(embedding_index') = Len(OtherEntries(embedding_index, call'.recipe_id)) + 1
      ]_vars

\* C8 witness: an insert failed on an index that holds two entries
C8_Witness ==
    /\ call.op = "add_recipe_embedding"
    /\ call.ret = FALSE
    /\ Len(embedding_index) = 2

IsNimCall == call.op = "query_nim"
FailureStrings == {PlainText(NIM_UNAVAILABLE), PlainText(NIM_NOT_CONFIGURED)}

\* the response is a 200 without generated text where it is expected
UnexpectedShape(reply) ==
    reply.kind = "bad_shape" \/ (reply.kind = "ok" /\ reply.content = NoneText)

Carriers(rid) ==
    {k \in DOMAIN RECIPES : RECIPES[k].id = rid \/ RECIPES[k].id_legacy = rid}

\* C10: get_recipe_by_id returns the first catalog record that carries the
\* identifier as its id or as its id_legacy, and the empty record when no
\* record carries it
C10_ResolvesEitherKey ==
    call.op = "get_recipe_by_id"
        => IF Carriers(call.recipe_id) = {}
           THEN call.ret = EmptyRecipe
           ELSE /\ call.ret.id = call.recipe_id \/ call.ret.id_legacy = call.recipe_id
                /\ \E k \in Carriers(call.recipe_id) :
                     /\ call.ret = RECIPES[k]
                     /\ \A j \in Carriers(call.recipe_id) : k <= j

\* C10 witness: the identifier is the primary id of the second record only,
\* and that record is returned
C10_Witness ==
    /\ call.op = "get_recipe_by_id"
    /\ Carriers(call.recipe_id) = {2}
    /\ RECIPES[2].id = call.recipe_id
    /\ RECIPES[2].id_legacy # call.recipe_id
    /\ call.ret = RECIPES[2]

\* C11: attach_recipe_images never changes its argument, the step records
\* and ingredient records included; so no plan, list or fetch request (and
\* no other step of the service) changes a record of the shared catalog.
C11_CatalogUnchanged == [][RECIPES' = RECIPES]_vars

\* C12: the embedding index is written only while the module starts up:
\* every step that changes the index is a step of the start-up loop, taken
\* before the service answers its first request; no step of plan_meals,
\* search_recipes, read_recipe or list_recipes adds, removes or changes an
\* entry, so every request reads the same index.
C12_IndexWrittenOnlyAtStartup ==
    [][/\ embedding_index' # embedding_index => pc = "startup" /\ call = Idle
       /\ pc = "serving" => embedding_index' = embedding_index]_vars

\* a search answered from a filled index, after all the start-up inserts
C12_Witness ==
    /\ pc = "serving"
    /\ Len(embedding_index) = 2
    /\ call.op = "search_recipes"
    /\ call.response.status = 200
    /\ call.similar_recipes # <<>>

\* the catalog record an identifier stands for: the first that carries it
RecordOf(rid) == RECIPES[CHOOSE k \in Carriers(rid) : \A j \in Carriers(rid) : k <= j]

\* the identifiers of a reply that some catalog record carries, in order
Resolvable(ids) == SelectSeq(ids, LAMBDA rid : Carriers(rid) # {})

\* C13: when the reasoning service answers with a JSON array of identifiers,
\* the selected sequence starts with the catalog records of the resolvable
\* identifiers in the order of the array (an identifier no record carries is
\* skipped and no recipe of the plan carries it), and, when fewer than
\* meals_per_day * days resolved, goes on with exactly the missing number of
\* records, each the record of a retrieved identifier; a record may repeat.
C13_ResolvedThenPadded ==
    (IsPlanCall /\ call.ai_response.kind = "array")
        => LET ids == call.ai_response.items
               head == [j \in DOMAIN Resolvable(ids) |-> RecordOf(Resolvable(ids)[j])]
               selected == call.selected_recipes
               needed == Needed(call.request)
           IN  /\ Len(selected) =
                    Len(head) + (IF Len(head) < needed THEN needed - Len(head) ELSE 0)
               /\ SubSeq(selected, 1, Len(head)) = head
               /\ \A j \in (Len(head) + 1)..Len(selected) :
                    \E i \in DOMAIN call.similar_recipes :
                        /\ Carriers(call.similar_recipes[i]) # {}
                        /\ selected[j] = RecordOf(call.similar_recipes[i])
               /\ \A i \in DOMAIN ids :
                    Carriers(ids[i]) = {}
                        => \A meal \in PlanRecipes(call.response.plan) :
                              meal.id # ids[i] /\ meal.id_legacy # ids[i]

\* an array that names an unknown identifier and one known one, for a plan
\* of three: the known record, then two drawn records, the same one twice
C13_Witness ==
    /\ IsPlanCall
    /\ call.ai_response.kind = "array"
    /\ call.ai_response.items = <<UnknownId, "a">>
    /\ Needed(call.request) = 3
    /\ Len(call.selected_recipes) = 3
    /\ call.selected_recipes[2] = call.selected_recipes[3]
    /\ call.selected_recipes[1] # call.selected_recipes[2]
    /\ call.response.status = 200

\* C14: the sequence of recipes handed to the assembly of the plan has
\* exactly meals_per_day * days elements on every path, so that day d holds
\* its elements (d-1)*meals_per_day .. d*meals_per_day - 1 and every
\* selected recipe is a meal of the plan.
C14_ExactlyNeededSelected ==
    (IsPlanCall /\ call.response.status = 200)
        => LET selected == call.selected_recipes
               m == call.request.meals_per_day
           IN  /\ Len(selected) = Needed(call.request)
               /\ \A d \in 1..call.request.days :
                    call.response.plan[d].meals =
                        AttachAll(SubSeq(selected, (d - 1) * m + 1, d * m))
               /\ \A j \in DOMAIN selected :
                    attach_recipe_images(selected[j]).ret
                        \in PlanRecipes(call.response.plan)

\* plan_meals got past the retrieval and the parsing: it reached Step 7
ReachedResolution ==
    /\ IsPlanCall
    /\ call.similar_recipes # <<>>
    /\ call.ai_response.kind # "number"

\* C15: every key of the embedding index is the id_legacy of a catalog
\* record, so every identifier a retrieval returns resolves; a request that
\* has to pad therefore draws from a non-empty pool and is answered with a
\* plan, and the context has one entry per retrieved identifier.
C15_IndexKeysResolve ==
    /\ \A k \in DOMAIN embedding_index :
          \E i \in DOMAIN RECIPES : RECIPES[i].id_legacy = embedding_index[k].rid
    /\ IsPlanCall
          => \A i \in DOMAIN call.similar_recipes :
                Carriers(call.similar_recipes[i]) # {}
    /\ ReachedResolution
          => /\ call.response.status = 200
             /\ call.response.retrieved_recipes = Len(call.similar_recipes)

\* a reply that names no known recipe, for a plan of two: both are drawn
\* from a pool of two retrieved records
C15_Witness ==
    /\ IsPlanCall
    /\ call.ai_response.kind = "array"
    /\ call.ai_response.items = <<UnknownId>>
    /\ Needed(call.request) = 2
    /\ Len(call.similar_recipes) = 2
    /\ call.response.status = 200
    /\ Len(call.selected_recipes) = 2
    /\ call.response.retrieved_recipes = 2

====
